---- MODULE Spec2Model ----
(***************************************************************************)
(* Model of inheritance_dict: BaseDict and its four concrete subclasses.   *)
(* A dictionary whose lookups try an ordered sequence of candidate keys    *)
(* produced by _get_keys, and whose setdefault writes under _set_key.      *)
(***************************************************************************)
EXTENDS Integers, Sequences, FiniteSets, TLC

(* ---------------- bounds ---------------- *)
MaxEntries == 2          \* largest number of entries the store may hold
NumValues == 2           \* stored values and defaults are 1..NumValues

Values == 1..NumValues

(* ---------------- keys ---------------- *)
\* A key is a record: a type object, a plain instance, or a tuple of keys.
TypeKey(n) == [kind |-> "type", name |-> n, elems |-> <<>>]
InstKey(n) == [kind |-> "inst", name |-> n, elems |-> <<>>]
TupleKey(es) == [kind |-> "tuple", name |-> "", elems |-> es]
NoKey == [kind |-> "none", name |-> "", elems |-> <<>>]

object == TypeKey("object")
int == TypeKey("int")
bool == TypeKey("bool")
type == TypeKey("type")
tuple == TypeKey("tuple")
True == InstKey("True")
EmptyTuple == TupleKey(<<>>)

Pair == TupleKey(<<bool, True>>)

(* ---------------- host type system ---------------- *)
\* isinstance(key, type)
isinstance_type(key) == key.kind = "type"

\* isinstance(key, tuple)
isinstance_tuple(key) == key.kind = "tuple"

\* the direct base class of each type (object has none)
base(T) ==
  CASE T = bool -> int
    [] T = int -> object
    [] T = type -> object
    [] T = tuple -> object

\* T.__mro__ : T first, then its ancestors, ending at object
RECURSIVE mro(_)
mro(T) == IF T = object THEN <<object>> ELSE <<T>> \o mro(base(T))

\* type(key)
typeof(key) ==
  CASE key.kind = "type" -> type
    [] key.kind = "tuple" -> tuple
    [] key = True -> bool

(* ---------------- the dict classes ---------------- *)
Variants == {"InheritanceDict", "FallbackInheritanceDict",
             "TypeConvertingInheritanceDict",
             "FallbackTypeConvertingInheritanceDict"}

\* type(self).__mro__ restricted to the classes of the module
ClassMRO(v) ==
  CASE v = "InheritanceDict" -> <<"InheritanceDict", "BaseDict">>
    [] v = "FallbackInheritanceDict" ->
         <<"FallbackInheritanceDict", "FallbackMixin", "BaseDict">>
    [] v = "TypeConvertingInheritanceDict" ->
         <<"TypeConvertingInheritanceDict", "InheritanceDict", "BaseDict">>
    [] v = "FallbackTypeConvertingInheritanceDict" ->
         <<"FallbackTypeConvertingInheritanceDict", "FallbackMixin", "BaseDict">>

\* the elements of a sequence
Range(items) == {items[n] : n \in 1..Len(items)}

\* concat_map(func, items): func is given as a mapping over the items
concat_map(func, items) ==
  LET cat[n \in 0..Len(items)] ==
        IF n = 0 THEN <<>> ELSE cat[n - 1] \o func[items[n]]
  IN cat[Len(items)]

\* super()._get_keys(key) called from the class at position i of C:
\* the next class after position i that defines _get_keys.
RECURSIVE super_get_keys(_, _, _)

BaseDict_get_keys(C, i, key) == <<key>>

\* variant of FallbackMixin._get_keys that decomposes only non-empty tuples
FallbackMixin_get_keys_nonempty(C, i, key) ==
  IF isinstance_tuple(key) /\ key.elems # <<>>
  THEN concat_map([e \in Range(key.elems) |-> super_get_keys(C, i, e)], key.elems)
  ELSE super_get_keys(C, i, key)

FallbackMixin_get_keys(C, i, key) ==
  IF isinstance_tuple(key)
  THEN concat_map([e \in Range(key.elems) |-> super_get_keys(C, i, e)], key.elems)
  ELSE super_get_keys(C, i, key)

\* variant of InheritanceDict._get_keys that walks the mro root first
InheritanceDict_get_keys_reversed(C, i, key) ==
  IF isinstance_type(key)
  THEN concat_map([t \in Range(mro(key)) |-> super_get_keys(C, i, t)],
                  [n \in 1..Len(mro(key)) |-> mro(key)[Len(mro(key)) + 1 - n]])
  ELSE super_get_keys(C, i, key)

InheritanceDict_get_keys(C, i, key) ==
  IF isinstance_type(key)
  THEN concat_map([t \in Range(mro(key)) |-> super_get_keys(C, i, t)], mro(key))
  ELSE super_get_keys(C, i, key)

\* variant of TypeConvertingInheritanceDict._get_keys that tries the type first
TypeConvertingInheritanceDict_get_keys_typefirst(C, i, key) ==
  (IF ~isinstance_type(key)
   THEN super_get_keys(C, i, typeof(key))
   ELSE <<>>)
    \o super_get_keys(C, i, key)

\* variant of TypeConvertingInheritanceDict._get_keys without the type test
TypeConvertingInheritanceDict_get_keys_unguarded(C, i, key) ==
  super_get_keys(C, i, key) \o super_get_keys(C, i, typeof(key))

TypeConvertingInheritanceDict_get_keys(C, i, key) ==
  super_get_keys(C, i, key)
    \o (IF ~isinstance_type(key)
        THEN super_get_keys(C, i, typeof(key))
        ELSE <<>>)

super_get_keys(C, i, key) ==
  LET j == i + 1
      cls == C[j]
  IN CASE cls = "BaseDict" -> BaseDict_get_keys(C, j, key)
       [] cls = "FallbackMixin" -> FallbackMixin_get_keys(C, j, key)
       [] cls = "InheritanceDict" -> InheritanceDict_get_keys(C, j, key)
       [] cls = "TypeConvertingInheritanceDict" ->
            TypeConvertingInheritanceDict_get_keys(C, j, key)
       [] OTHER -> super_get_keys(C, j, key)

\* self._get_keys(key)
get_keys(v, key) == super_get_keys(ClassMRO(v), 0, key)

RECURSIVE super_set_key(_, _, _)

BaseDict_set_key(C, i, key) == key

\* variant of FallbackMixin._set_key that keeps the tuple as the storage key
FallbackMixin_set_key_whole(C, i, key) == super_set_key(C, i, key)

FallbackMixin_set_key(C, i, key) ==
  IF isinstance_tuple(key) /\ key.elems # <<>>
  THEN key.elems[1]
  ELSE super_set_key(C, i, key)

super_set_key(C, i, key) ==
  LET j == i + 1
      cls == C[j]
  IN CASE cls = "BaseDict" -> BaseDict_set_key(C, j, key)
       [] cls = "FallbackMixin" -> FallbackMixin_set_key(C, j, key)
       [] OTHER -> super_set_key(C, j, key)

\* self._set_key(key)
set_key(v, key) == super_set_key(ClassMRO(v), 0, key)

\* the keys exercised with each class: types, an instance and a tuple for the
\* classes without tuple decomposition; a tuple, its elements, an ancestor of
\* its head and the empty tuple for the classes with it
KeysOf(v) ==
  IF v \in {"InheritanceDict", "TypeConvertingInheritanceDict"}
  THEN {object, int, bool, type, True, Pair}
  ELSE {int, bool, True, EmptyTuple, Pair}

(* ---------------- outcomes of a call ---------------- *)
Return(x) == [raised |-> FALSE, value |-> x, errkey |-> NoKey]
KeyError(k) == [raised |-> TRUE, value |-> 0, errkey |-> k]

\* dict.__setitem__ on the underlying store
dict_setitem(st, k, x) == [q \in DOMAIN st \cup {k} |-> IF q = k THEN x ELSE st[q]]

\* variant of BaseDict.__getitem__ whose KeyError carries the last candidate
BaseDict_getitem_candidate_error(v, st, key) ==
  LET keys == get_keys(v, key)
      loop[n \in 1..(Len(keys) + 1)] ==
        IF n > Len(keys)
        THEN KeyError(IF keys = <<>> THEN key ELSE keys[Len(keys)])
        ELSE IF keys[n] \in DOMAIN st THEN Return(st[keys[n]])
        ELSE loop[n + 1]
  IN loop[1]

\* BaseDict.__getitem__: first candidate with an entry, else KeyError(key)
BaseDict_getitem(v, st, key) ==
  LET keys == get_keys(v, key)
      loop[n \in 1..(Len(keys) + 1)] ==
        IF n > Len(keys) THEN KeyError(key)
        ELSE IF keys[n] \in DOMAIN st THEN Return(st[keys[n]])
        ELSE loop[n + 1]
  IN loop[1]

\* BaseDict.get
BaseDict_get(v, st, key, default) ==
  LET r == BaseDict_getitem(v, st, key)
  IN IF r.raised THEN Return(default) ELSE r

\* variant of BaseDict.setdefault that stores the default on a hit as well
BaseDict_setdefault_always_writes(v, st, key, default) ==
  LET r == BaseDict_getitem(v, st, key)
  IN [result |-> IF r.raised THEN Return(default) ELSE r,
      store |-> dict_setitem(st, set_key(v, key), default)]

\* BaseDict.setdefault: the outcome and the store afterwards
BaseDict_setdefault(v, st, key, default) ==
  LET r == BaseDict_getitem(v, st, key)
  IN IF r.raised
     THEN [result |-> Return(default),
           store |-> dict_setitem(st, set_key(v, key), default)]
     ELSE [result |-> r, store |-> st]

(* ---------------- state ---------------- *)
VARIABLES variant, store, pre, last
vars == <<variant, store, pre, last>>

Call(op, key, default, result) ==
  [op |-> op, key |-> key, default |-> default, result |-> result]

Stores(v) ==
  UNION {[D -> Values] : D \in {S \in SUBSET KeysOf(v) : Cardinality(S) <= MaxEntries}}

\* construction: cls(initial entries), entries written under their exact keys
Init ==
  /\ variant \in Variants
  /\ store \in Stores(variant)
  /\ pre = store
  /\ last = Call("init", NoKey, 0, Return(0))

GetItem(k) ==
  /\ last' = Call("getitem", k, 0, BaseDict_getitem(variant, store, k))
  /\ pre' = store
  /\ UNCHANGED <<variant, store>>

Get(k, d) ==
  /\ last' = Call("get", k, d, BaseDict_get(variant, store, k, d))
  /\ pre' = store
  /\ UNCHANGED <<variant, store>>

SetDefault(k, d) ==
  LET out == BaseDict_setdefault(variant, store, k, d)
  IN /\ Cardinality(DOMAIN out.store) <= MaxEntries
     /\ last' = Call("setdefault", k, d, out.result)
     /\ pre' = store
     /\ store' = out.store
     /\ UNCHANGED variant

SetItem(k, x) ==
  /\ Cardinality(DOMAIN store \cup {k}) <= MaxEntries
  /\ last' = Call("setitem", k, x, Return(0))
  /\ pre' = store
  /\ store' = dict_setitem(store, k, x)
  /\ UNCHANGED variant

Next ==
  \/ \E k \in KeysOf(variant) : GetItem(k)
  \/ \E k \in KeysOf(variant), d \in Values : Get(k, d)
  \/ \E k \in KeysOf(variant), d \in Values : SetDefault(k, d)
  \/ \E k \in KeysOf(variant), x \in Values : SetItem(k, x)

Spec == Init /\ [][Next]_vars

TypeOK ==
  /\ variant \in Variants
  /\ store \in Stores(variant)
  /\ pre \in Stores(variant)
  /\ last.op \in {"init", "getitem", "get", "setdefault", "setitem"}

(* ---------------- vocabulary of the properties ---------------- *)
TupleAware == {"FallbackInheritanceDict", "FallbackTypeConvertingInheritanceDict"}

\* positions of the candidates of seq that have an entry in st
Hits(seq, st) == {n \in 1..Len(seq) : seq[n] \in DOMAIN st}

Least(S) == CHOOSE n \in S : \A m \in S : n <= m

\* what a walk over seq in order must produce for a lookup of key
FirstHitOutcome(seq, st, key) ==
  IF Hits(seq, st) = {} THEN KeyError(key)
  ELSE Return(st[seq[Least(Hits(seq, st))]])

IsPair(key) == isinstance_tuple(key) /\ Len(key.elems) = 2

\* the storage key the tuple-head rule names for a key under variant v
HeadOrSelf(v, key) ==
  IF v \in TupleAware /\ isinstance_tuple(key) /\ Len(key.elems) > 0
  THEN key.elems[1] ELSE key

(* ---------------- C1 ---------------- *)
\* C1: in InheritanceDict, a lookup of a type key T returns the value stored
\* under the earliest member of T.__mro__ that has an entry, whatever else
\* is stored under later ancestors.
C1_AncestorOrdering ==
  (variant = "InheritanceDict" /\ last.op = "getitem" /\ isinstance_type(last.key))
    => LET chain == mro(last.key)
           H == Hits(chain, pre)
       IN H # {} => last.result = Return(pre[chain[Least(H)]])

C1_Witness ==
  /\ variant = "InheritanceDict" /\ last.op = "getitem" /\ last.key = bool
  /\ bool \notin DOMAIN pre
  /\ int \in DOMAIN pre /\ object \in DOMAIN pre
  /\ pre[int] # pre[object]
  /\ last.result = Return(pre[int])

(* ---------------- C2 ---------------- *)
\* C2 as stated: in every variant, a lookup of a key that has its own entry
\* returns that entry's value, tuple keys under the tuple-aware variants
\* included.
C2_ExactHitAnyKey ==
  (last.op = "getitem" /\ last.key \in DOMAIN pre)
    => last.result = Return(pre[last.key])

\* C2 amended: a lookup of a key that has its own entry returns that entry's
\* value, except for tuple keys under the tuple-aware variants (which are
\* decomposed and never tried as a whole).
C2_ExactHitPriority ==
  (/\ last.op = "getitem" /\ last.key \in DOMAIN pre
   /\ ~(variant \in TupleAware /\ isinstance_tuple(last.key)))
    => last.result = Return(pre[last.key])

C2_Witness ==
  /\ variant = "TypeConvertingInheritanceDict" /\ last.op = "getitem"
  /\ last.key = True /\ True \in DOMAIN pre /\ bool \in DOMAIN pre
  /\ pre[True] # pre[bool]
  /\ last.result = Return(pre[True])

(* ---------------- C3 ---------------- *)
\* C3: a lookup raises KeyError, carrying the lookup key, exactly when no
\* candidate of the key has an entry, and otherwise returns the value of the
\* first candidate that has one; get returns the default exactly where the
\* lookup would raise, and never raises.
C3_MissExhaustion ==
  LET cands == get_keys(variant, last.key)
      miss == \A n \in 1..Len(cands) : cands[n] \notin DOMAIN pre
  IN /\ last.op = "getitem" =>
          /\ last.result.raised <=> miss
          /\ last.result.raised => last.result.errkey = last.key
          /\ ~last.result.raised =>
                \E n \in 1..Len(cands) :
                   /\ cands[n] \in DOMAIN pre
                   /\ \A m \in 1..(n - 1) : cands[m] \notin DOMAIN pre
                   /\ last.result.value = pre[cands[n]]
     /\ last.op = "get" =>
          /\ ~last.result.raised
          /\ miss => last.result = Return(last.default)
          /\ ~miss => last.result = FirstHitOutcome(cands, pre, last.key)

C3_Witness ==
  /\ last.op = "getitem" /\ last.key = bool /\ variant = "InheritanceDict"
  /\ DOMAIN pre = {type, True}
  /\ last.result = KeyError(bool)

(* ---------------- C4 ---------------- *)
\* the non-tuple variant each tuple-aware variant is said to wrap
Inner(v) ==
  IF v = "FallbackInheritanceDict" THEN "InheritanceDict"
  ELSE "TypeConvertingInheritanceDict"

\* tuple decomposition wrapped around the candidate generation of variant v
Decomposed(v, key) ==
  IF isinstance_tuple(key)
  THEN concat_map([e \in Range(key.elems) |-> get_keys(v, e)], key.elems)
  ELSE get_keys(v, key)

\* C4: under a tuple-aware variant the candidates of a key are the tuple
\* decomposition of the corresponding non-tuple variant's candidates, and a
\* lookup returns the first of them that has an entry (so an entry under an
\* ancestor, or under the type of an instance, is found).
C4_VariantComposition ==
  (variant \in TupleAware /\ last.op = "getitem")
    => /\ get_keys(variant, last.key) = Decomposed(Inner(variant), last.key)
       /\ last.result =
            FirstHitOutcome(Decomposed(Inner(variant), last.key), pre, last.key)

(* ---------------- C5 ---------------- *)
\* C5: under a tuple-aware variant, a lookup of a pair (x, y) with an entry
\* for x and none for the pair returns x's value; setdefault on a pair whose
\* candidates all miss writes the default under x, adds no entry under the
\* pair, and a lookup of the pair then returns the default.
C5_TupleDecomposition ==
  (variant \in TupleAware /\ IsPair(last.key)) =>
    LET x == last.key.elems[1]
        y == last.key.elems[2]
    IN /\ (last.op = "getitem" /\ x \in DOMAIN pre /\ last.key \notin DOMAIN pre)
            => last.result = Return(pre[x])
       /\ (last.op = "setdefault" /\ x \notin DOMAIN pre /\ y \notin DOMAIN pre)
            => /\ x \in DOMAIN store /\ store[x] = last.default
               /\ last.key \in DOMAIN store => last.key \in DOMAIN pre
               /\ DOMAIN store = DOMAIN pre \cup {x}
               /\ BaseDict_getitem(variant, store, last.key) = Return(last.default)

C5_Witness ==
  /\ variant = "FallbackInheritanceDict" /\ last.op = "setdefault"
  /\ last.key = Pair
  /\ pre = <<>>
  /\ DOMAIN store = {bool} /\ store[bool] = last.default

(* ---------------- C6 ---------------- *)
\* C6: in TypeConvertingInheritanceDict the candidates of a non-type key i
\* are i followed by the mro of type(i), and the candidates of a type key T
\* are exactly T's mro (the metaclass is not consulted); the lookup returns
\* the first of them that has an entry.
C6_TypeFallbackOrder ==
  (variant = "TypeConvertingInheritanceDict" /\ last.op = "getitem") =>
    LET k == last.key
        expected == IF isinstance_type(k) THEN mro(k)
                    ELSE <<k>> \o mro(typeof(k))
    IN /\ get_keys(variant, k) = expected
       /\ last.result = FirstHitOutcome(expected, pre, k)

C6_Witness ==
  /\ variant = "TypeConvertingInheritanceDict" /\ last.op = "getitem"
  /\ \/ /\ last.key = True /\ DOMAIN pre = {int, object}
        /\ last.result = Return(pre[int])
     \/ /\ last.key = int /\ DOMAIN pre = {type}
        /\ last.result = KeyError(int)

(* ---------------- C7 ---------------- *)
\* C7: setdefault on a key whose lookup succeeds returns the found value and
\* leaves the store unchanged; on a key whose lookup fails it returns the
\* default and writes the default under the storage key (the key, or the head
\* of a non-empty tuple under the tuple-aware variants), every other entry
\* staying as it was.  Lookup and get leave the store unchanged.
C7_SetDefaultContract ==
  /\ last.op \in {"getitem", "get"} => store = pre
  /\ last.op = "setdefault" =>
       LET cands == get_keys(variant, last.key)
           sk == HeadOrSelf(variant, last.key)
       IN IF Hits(cands, pre) # {}
          THEN /\ store = pre
               /\ last.result = FirstHitOutcome(cands, pre, last.key)
          ELSE /\ last.result = Return(last.default)
               /\ DOMAIN store = DOMAIN pre \cup {sk}
               /\ store[sk] = last.default
               /\ \A q \in DOMAIN pre \ {sk} : store[q] = pre[q]

C7_Witness ==
  /\ last.op = "setdefault" /\ variant = "TypeConvertingInheritanceDict"
  /\ last.key = True
  /\ \/ /\ DOMAIN pre = {bool} /\ store = pre /\ last.default # pre[bool]
        /\ last.result = Return(pre[bool])
     \/ /\ DOMAIN pre = {type} /\ DOMAIN store = {type, True}
        /\ store[True] = last.default /\ store[type] # last.default

(* ---------------- C8 ---------------- *)
\* C8: when a lookup of k misses, two setdefault(k, d) calls in a row both
\* return d, and the store then holds exactly one entry more than before the
\* first call.
C8_IdempotentInsertion ==
  [][(/\ last.op = "setdefault"
      /\ BaseDict_getitem(variant, pre, last.key).raised
      /\ last'.op = "setdefault"
      /\ last'.key = last.key /\ last'.default = last.default)
       => /\ last.result = Return(last.default)
          /\ last'.result = Return(last.default)
          /\ Cardinality(DOMAIN store') = Cardinality(DOMAIN pre) + 1]_vars

(* ---------------- C9 ---------------- *)
\* C9: under a tuple-aware variant the empty tuple has no candidates, so a
\* lookup of () raises KeyError and get((), x) returns x, also when an entry
\* is stored under ().
C9_EmptyTuple ==
  (variant \in TupleAware /\ last.key = EmptyTuple) =>
    /\ get_keys(variant, EmptyTuple) = <<>>
    /\ set_key(variant, EmptyTuple) = EmptyTuple
    /\ last.op = "getitem" => last.result = KeyError(EmptyTuple)
    /\ last.op = "get" => last.result = Return(last.default)

C9_Witness ==
  /\ variant \in TupleAware /\ last.op = "getitem" /\ last.key = EmptyTuple
  /\ EmptyTuple \in DOMAIN pre
  /\ last.result = KeyError(EmptyTuple)

(* ---------------- C10 ---------------- *)
\* C10: every entry present before a setdefault call is still present with
\* the same value after it (the call can only add an entry under a key that
\* had none).
C10_NeverOverwrites ==
  last.op = "setdefault" =>
    \A q \in DOMAIN pre : q \in DOMAIN store /\ store[q] = pre[q]
====
